---- MODULE Spec2Model ----
(***************************************************************************)
(* Multi-timezone live clock (src/app/page.tsx, component Home).           *)
(*                                                                         *)
(* The component keeps two React state hooks, currentTime and              *)
(* selectedTimezones, starts a 1000 ms interval timer in a mount effect    *)
(* and renders one card per selected id.  The model follows the event      *)
(* loop: a timer callback or a click handler runs to completion and        *)
(* queues a state update; React renders the queued updates in a later      *)
(* step.  A handler reads the values its render captured (view), not the   *)
(* queued ones.                                                            *)
(*                                                                         *)
(* Instants are milliseconds counted from BaseInstant.  CJK display names  *)
(* of the catalog are transliterated, strings of the module being ASCII.   *)
(***************************************************************************)
EXTENDS Integers, Sequences, FiniteSets, TLC

VARIABLES
  mounted,            \* the Home component is in the tree
  timers,             \* number of live interval timers
  now,                \* the system clock, ms since BaseInstant
  due,                \* earliest time of the next firing of the live timer
  currentTime,        \* hook state: the Instant last passed to setCurrentTime
  selectedTimezones,  \* hook state: the value last passed to setSelectedTimezones
  view,               \* what the last render captured: the closures' values
  display,            \* what the last render returned: the cards on screen
  pending,            \* hooks with an update queued and not rendered yet
  error,              \* the error a render threw, "none" without one
  published,          \* history: Instants set by the firings since mount
  tickRenders,        \* history: renders that took up the last firing's Instant
  calls,              \* history: the last toggleTimezone calls since mount
  before              \* history: the hook state the last call found

vars == <<mounted, timers, now, due, currentTime, selectedTimezones, view,
          display, pending, error, published, tickRenders, calls, before>>

----------------------------------------------------------------------------
(* Bounds of the model *)

MaxNow == 3000
ClockStep == 1000
MaxCalls == 2

(* Program constants *)

INTERVAL_MS == 1000

\* Intl.DateTimeFormat().resolvedOptions().timeZone of the host
HostZone == "Asia/Shanghai"

TIMEZONES ==
  << [id |-> "local",       name |-> "Local time",  zone |-> HostZone],
     [id |-> "beijing",     name |-> "Beijing",     zone |-> "Asia/Shanghai"],
     [id |-> "tokyo",       name |-> "Tokyo",       zone |-> "Asia/Tokyo"],
     [id |-> "london",      name |-> "London",      zone |-> "Europe/London"],
     [id |-> "paris",       name |-> "Paris",       zone |-> "Europe/Paris"],
     [id |-> "new_york",    name |-> "New York",    zone |-> "America/New_York"],
     [id |-> "los_angeles", name |-> "Los Angeles", zone |-> "America/Los_Angeles"],
     [id |-> "dubai",       name |-> "Dubai",       zone |-> "Asia/Dubai"],
     [id |-> "sydney",      name |-> "Sydney",      zone |-> "Australia/Sydney"] >>

\* A default selection with an id the catalog spells otherwise
DefaultSelectionMisspelt == <<"local", "newyork", "london">>

DefaultSelection == <<"local", "new_york", "london">>

CatalogIds == {TIMEZONES[i].id : i \in DOMAIN TIMEZONES}

\* The ids the model clicks: buttons of the catalog ...
ButtonIds == {"local", "new_york", "london", "tokyo"}
\* ... and an id that no button carries
UnknownIds == {"mars"}
ToggleIds == ButtonIds \cup UnknownIds

----------------------------------------------------------------------------
(* The platform: the zone database behind toLocaleTimeString *)

\* The system clock at the first mount is BaseInstant = 2024-07-01T12:00:00Z,
\* a Monday; Instants of the model are ms after it.
BaseSecondOfDay == 12 * 3600
BaseDate == [year |-> 2024, month |-> 7, day |-> 1, weekday |-> 1]
SecondsPerDay == 24 * 3600

\* Minutes east of UTC in force during the model's window, per zone name of
\* the zone database (summer 2024: daylight saving in Europe and America).
UtcOffsetMinutes ==
  [z \in {"Asia/Shanghai", "Asia/Tokyo", "Europe/London", "Europe/Paris",
          "America/New_York", "America/Los_Angeles", "Asia/Dubai",
          "Australia/Sydney", "Asia/Kolkata", "UTC"} |->
     CASE z = "Asia/Shanghai"       -> 480
       [] z = "Asia/Tokyo"          -> 540
       [] z = "Europe/London"       -> 60
       [] z = "Europe/Paris"        -> 120
       [] z = "America/New_York"    -> -240
       [] z = "America/Los_Angeles" -> -420
       [] z = "Asia/Dubai"          -> 240
       [] z = "Australia/Sydney"    -> 600
       [] z = "Asia/Kolkata"        -> 330
       [] z = "UTC"                 -> 0]

IsValidTimeZone(timezone) == timezone \in DOMAIN UtcOffsetMinutes

\* What toLocaleTimeString / toLocaleDateString throw on a timeZone option
\* that names no zone
RangeError == "RangeError: Invalid time zone specified"

Digits == <<"0", "1", "2", "3", "4", "5", "6", "7", "8", "9">>
TwoDigit(n) == Digits[(n \div 10) + 1] \o Digits[(n % 10) + 1]

\* Seconds since the local midnight of BaseDate, in the zone
LocalSeconds(date, timezone) ==
  BaseSecondOfDay + (date \div 1000) + 60 * UtcOffsetMinutes[timezone]

----------------------------------------------------------------------------
(* Pure functions of the component *)

\* A formatTime that, given no zone name, formats in the host's zone
formatTimeFallsBack(date, timezone) ==
  LET zone == IF IsValidTimeZone(timezone) THEN timezone ELSE HostZone
      s    == LocalSeconds(date, zone) % SecondsPerDay
  IN  TwoDigit(s \div 3600) \o ":" \o TwoDigit((s % 3600) \div 60)
        \o ":" \o TwoDigit(s % 60)

\* A formatTime that formats the clock's time, not the Instant it is given
formatTimeReadsClock(date, timezone) ==
  IF ~IsValidTimeZone(timezone) THEN RangeError
  ELSE LET s == LocalSeconds(now, timezone) % SecondsPerDay
       IN  TwoDigit(s \div 3600) \o ":" \o TwoDigit((s % 3600) \div 60)
             \o ":" \o TwoDigit(s % 60)

\* A formatTime without the timeZone option: the host's zone for every card
formatTimeIgnoresZone(date, timezone) ==
  IF ~IsValidTimeZone(timezone) THEN RangeError
  ELSE LET s == LocalSeconds(date, HostZone) % SecondsPerDay
       IN  TwoDigit(s \div 3600) \o ":" \o TwoDigit((s % 3600) \div 60)
             \o ":" \o TwoDigit(s % 60)

formatTime(date, timezone) ==
  IF ~IsValidTimeZone(timezone) THEN RangeError
  ELSE LET s == LocalSeconds(date, timezone) % SecondsPerDay
       IN  TwoDigit(s \div 3600) \o ":" \o TwoDigit((s % 3600) \div 60)
             \o ":" \o TwoDigit(s % 60)

formatDate(date, timezone) ==
  IF ~IsValidTimeZone(timezone) THEN RangeError
  ELSE LET shift == LocalSeconds(date, timezone) \div SecondsPerDay
           month == IF BaseDate.day + shift < 1 THEN BaseDate.month - 1
                    ELSE BaseDate.month
           day   == IF BaseDate.day + shift < 1 THEN 30 + BaseDate.day + shift
                    ELSE BaseDate.day + shift
       IN  ToString(BaseDate.year) \o "-" \o ToString(month) \o "-"
             \o ToString(day) \o " weekday "
             \o ToString((BaseDate.weekday + shift) % 7)

\* TIMEZONES.find(tz => tz.id === timezone): the first match, 0 for undefined
FindIndex(timezone) ==
  IF \E i \in DOMAIN TIMEZONES : TIMEZONES[i].id = timezone
  THEN CHOOSE i \in DOMAIN TIMEZONES :
         /\ TIMEZONES[i].id = timezone
         /\ \A j \in 1..(i - 1) : TIMEZONES[j].id # timezone
  ELSE 0

getTimezoneName(timezone) ==
  LET i == FindIndex(timezone)
  IN  IF i # 0 /\ TIMEZONES[i].name # "" THEN TIMEZONES[i].name ELSE timezone

getTimezoneZone(timezone) ==
  LET i == FindIndex(timezone)
  IN  IF i # 0 /\ TIMEZONES[i].zone # "" THEN TIMEZONES[i].zone ELSE timezone

includes(selected, timezoneId) ==
  \E i \in DOMAIN selected : selected[i] = timezoneId

\* selectedTimezones.filter(id => id !== timezoneId)
Without(selected, timezoneId) ==
  SelectSeq(selected, LAMBDA id : id # timezoneId)

\* Variants of toggleTimezone with a slip in them, used to show that the
\* properties below depend on the function
\* ... without the floor: the only member can be removed
toggleTimezoneNoFloor(selected, timezoneId) ==
  IF includes(selected, timezoneId)
  THEN [set |-> TRUE, value |-> Without(selected, timezoneId),
        throws |-> "none"]
  ELSE [set |-> TRUE, value |-> Append(selected, timezoneId),
        throws |-> "none"]

\* ... with the filter's test inverted: id === timezoneId
toggleTimezoneKeepsOnly(selected, timezoneId) ==
  IF includes(selected, timezoneId)
  THEN IF Len(selected) > 1
       THEN [set |-> TRUE,
             value |-> SelectSeq(selected, LAMBDA id : id = timezoneId),
             throws |-> "none"]
       ELSE [set |-> FALSE, value |-> selected, throws |-> "none"]
  ELSE [set |-> TRUE, value |-> Append(selected, timezoneId),
        throws |-> "none"]

\* ... adding in front: [timezoneId, ...selectedTimezones]
toggleTimezonePrepends(selected, timezoneId) ==
  IF includes(selected, timezoneId)
  THEN IF Len(selected) > 1
       THEN [set |-> TRUE, value |-> Without(selected, timezoneId),
             throws |-> "none"]
       ELSE [set |-> FALSE, value |-> selected, throws |-> "none"]
  ELSE [set |-> TRUE, value |-> <<timezoneId>> \o selected,
        throws |-> "none"]

\* ... falling back to the default selection when the only member is toggled
toggleTimezoneForcesDefault(selected, timezoneId) ==
  IF includes(selected, timezoneId)
  THEN IF Len(selected) > 1
       THEN [set |-> TRUE, value |-> Without(selected, timezoneId),
             throws |-> "none"]
       ELSE [set |-> TRUE, value |-> <<"local", "new_york", "london">>,
             throws |-> "none"]
  ELSE [set |-> TRUE, value |-> Append(selected, timezoneId),
        throws |-> "none"]

\* ... adding without looking for the id
toggleTimezoneAlwaysAppends(selected, timezoneId) ==
  [set |-> TRUE, value |-> Append(selected, timezoneId), throws |-> "none"]

\* toggleTimezone, run on the selectedTimezones of the render that created
\* the handler: whether it calls setSelectedTimezones (set), the value it
\* passes (value, the value read when it makes no call) and what it throws
\* (the function has no throw: "none").
toggleTimezone(selected, timezoneId) ==
  IF includes(selected, timezoneId)
  THEN IF Len(selected) > 1
       THEN [set |-> TRUE, value |-> Without(selected, timezoneId),
             throws |-> "none"]
       ELSE [set |-> FALSE, value |-> selected, throws |-> "none"]
  ELSE [set |-> TRUE, value |-> Append(selected, timezoneId),
        throws |-> "none"]

\* One card of the time display grid
Card(date, timezoneId) ==
  LET zone == getTimezoneZone(timezoneId)
  IN  [id       |-> timezoneId,
       name     |-> getTimezoneName(timezoneId),
       zone     |-> zone,
       timeText |-> formatTime(date, zone),
       dateText |-> formatDate(date, zone)]

\* A grid that maps over the catalog, keeping the selected entries: the
\* cards in catalog order
CardsInCatalogOrder(date, selected) ==
  LET chosen == SelectSeq(TIMEZONES, LAMBDA tz : includes(selected, tz.id))
  IN  [i \in DOMAIN chosen |-> Card(date, chosen[i].id)]

\* The time display grid: selectedTimezones.map(...)
Cards(date, selected) == [i \in DOMAIN selected |-> Card(date, selected[i])]

\* A render of the grid throws: the formatting of some card does
RenderThrows(date, selected) ==
  \E i \in DOMAIN selected :
     \/ Cards(date, selected)[i].timeText = RangeError
     \/ Cards(date, selected)[i].dateText = RangeError

----------------------------------------------------------------------------
(* The state machine *)

\* A callback that sets the Instant it already has, reading no clock
TickInstantStale(clock, previous) == previous

\* A callback that counts the Instant up by the interval
TickInstantCounts(clock, previous) == previous + INTERVAL_MS

\* new Date() in the interval callback
TickInstant(clock, previous) == clock

\* A timer that fires once, as one set with setTimeout: never due again
NextDueOneShot(clock) == clock + MaxNow + INTERVAL_MS

\* setInterval(..., 1000) arms the timer again after each firing
NextDue(clock) == clock + INTERVAL_MS

\* An effect that returns no cleanup: the timer outlives the component
CleanupMissing(liveTimers) == liveTimers

\* The effect's cleanup: return () => clearInterval(timer)
Cleanup(liveTimers) == liveTimers - 1

\* A timer started in every render, as by an effect without dependency
\* array and cleanup
EffectOnUpdateStartsTimer(liveTimers) == liveTimers + 1

\* useEffect(..., []): the effect does not run again when Home re-renders
EffectOnUpdate(liveTimers) == liveTimers

TypeOK ==
  /\ mounted \in BOOLEAN
  /\ timers \in Nat
  /\ now \in 0..MaxNow
  /\ due \in Nat
  /\ currentTime \in 0..MaxNow
  /\ selectedTimezones \in Seq(ToggleIds)
  /\ view \in [currentTime : 0..MaxNow, selectedTimezones : Seq(ToggleIds)]
  /\ pending \subseteq {"currentTime", "selectedTimezones"}
  /\ error \in {"none", RangeError}
  /\ published \in Seq(0..MaxNow)
  /\ tickRenders \in Nat
  /\ Len(calls) <= MaxCalls
  /\ before \in Seq(ToggleIds)

\* Home is mounted: useState initialisers, the first render, then the effect
\* of useEffect(..., []), which starts the one interval timer.
MountState(t, liveTimers) ==
  /\ mounted' = TRUE
  /\ currentTime' = t
  /\ selectedTimezones' = DefaultSelection
  /\ view' = [currentTime |-> t, selectedTimezones |-> DefaultSelection]
  /\ display' = Cards(t, DefaultSelection)
  /\ pending' = {}
  /\ error' = "none"
  /\ timers' = liveTimers + 1
  /\ due' = NextDue(t)
  /\ published' = <<>>
  /\ tickRenders' = 0
  /\ calls' = <<>>
  /\ before' = <<>>

Init ==
  /\ mounted = TRUE
  /\ now = 0
  /\ currentTime = 0
  /\ selectedTimezones = DefaultSelection
  /\ view = [currentTime |-> 0, selectedTimezones |-> DefaultSelection]
  /\ display = Cards(0, DefaultSelection)
  /\ pending = {}
  /\ error = "none"
  /\ timers = 1
  /\ due = NextDue(0)
  /\ published = <<>>
  /\ tickRenders = 0
  /\ calls = <<>>
  /\ before = <<>>

\* The page is opened again after the component left the tree
Mount ==
  /\ ~mounted
  /\ MountState(now, timers)
  /\ UNCHANGED now

\* Home leaves the tree: React runs the cleanup and drops the queued updates
Unmount ==
  /\ mounted
  /\ mounted' = FALSE
  /\ timers' = Cleanup(timers)
  /\ due' = 0
  /\ pending' = {}
  /\ display' = <<>>
  /\ calls' = <<>>
  /\ before' = <<>>
  /\ UNCHANGED <<now, currentTime, selectedTimezones, view, error, published,
                 tickRenders>>

\* Time passes
Advance ==
  /\ now + ClockStep <= MaxNow
  /\ now' = now + ClockStep
  /\ UNCHANGED <<mounted, timers, due, currentTime, selectedTimezones, view,
                 display, pending, error, published, tickRenders, calls,
                 before>>

\* A live interval timer fires: setCurrentTime(new Date()).  The timer task
\* runs once React has rendered what earlier tasks queued, and the timer is
\* armed again INTERVAL_MS after this firing.  setCurrentTime on a component
\* that left the tree changes nothing.
Tick ==
  /\ timers > 0
  /\ now >= due
  /\ pending = {}
  /\ due' = NextDue(now)
  /\ published' = Append(published, TickInstant(now, currentTime))
  /\ IF mounted
     THEN /\ currentTime' = TickInstant(now, currentTime)
          /\ pending' = {"currentTime"}
          /\ tickRenders' = 0
     ELSE UNCHANGED <<currentTime, pending, tickRenders>>
  /\ UNCHANGED <<mounted, timers, now, selectedTimezones, view, display,
                 error, calls, before>>

\* A click handler that also sets the Instant from the clock
ToggleSetsTime(timezoneId) ==
  /\ mounted
  /\ LET read == view.selectedTimezones
         out  == toggleTimezone(read, timezoneId)
         call == [id     |-> timezoneId,
                  read   |-> read,
                  set    |-> out.set,
                  wrote  |-> out.value,
                  throws |-> out.throws]
     IN  /\ IF out.set
            THEN selectedTimezones' = out.value
            ELSE UNCHANGED selectedTimezones
         /\ calls' = IF Len(calls) < MaxCalls THEN Append(calls, call)
                     ELSE Append(Tail(calls), call)
  /\ before' = selectedTimezones
  /\ currentTime' = now
  /\ pending' = pending \cup {"currentTime", "selectedTimezones"}
  /\ UNCHANGED <<mounted, timers, now, due, view, display, error, published,
                 tickRenders>>

\* onClick={() => toggleTimezone(id)}: the handler of the last render runs,
\* reading that render's selectedTimezones
Toggle(timezoneId) ==
  /\ mounted
  /\ LET read == view.selectedTimezones
         out  == toggleTimezone(read, timezoneId)
         call == [id     |-> timezoneId,
                  read   |-> read,
                  set    |-> out.set,
                  wrote  |-> out.value,
                  throws |-> out.throws]
     IN  /\ IF out.set
            THEN /\ selectedTimezones' = out.value
                 /\ pending' = pending \cup {"selectedTimezones"}
            ELSE UNCHANGED <<selectedTimezones, pending>>
         /\ calls' = IF Len(calls) < MaxCalls THEN Append(calls, call)
                     ELSE Append(Tail(calls), call)
  /\ before' = selectedTimezones
  /\ UNCHANGED <<mounted, timers, now, due, currentTime, view, display, error,
                 published, tickRenders>>

\* React renders the queued updates: Home runs with the latest hook state.
\* A throw of the render, there being no error boundary, takes the tree down.
Render ==
  /\ mounted
  /\ pending # {}
  /\ pending' = {}
  /\ view' = [currentTime |-> currentTime,
              selectedTimezones |-> selectedTimezones]
  /\ tickRenders' = IF "currentTime" \in pending THEN tickRenders + 1
                    ELSE tickRenders
  /\ IF RenderThrows(currentTime, selectedTimezones)
     THEN /\ error' = RangeError
          /\ display' = <<>>
          /\ mounted' = FALSE
          /\ timers' = Cleanup(timers)
          /\ due' = 0
          /\ calls' = <<>>
          /\ before' = <<>>
     ELSE /\ display' = Cards(currentTime, selectedTimezones)
          /\ timers' = EffectOnUpdate(timers)
          /\ UNCHANGED <<error, mounted, due, calls, before>>
  /\ UNCHANGED <<now, currentTime, selectedTimezones, published>>

Next ==
  \/ Mount
  \/ Unmount
  \/ Advance
  \/ Tick
  \/ \E timezoneId \in ToggleIds : Toggle(timezoneId)
  \/ Render

Spec == Init /\ [][Next]_vars

\* The component with no caller of toggleTimezone but the catalog's buttons
ButtonNext ==
  \/ Mount
  \/ Unmount
  \/ Advance
  \/ Tick
  \/ \E timezoneId \in ButtonIds : Toggle(timezoneId)
  \/ Render

ButtonSpec == Init /\ [][ButtonNext]_vars

\* The ids clicked when progress is checked: a button and the unknown id
LiveToggleIds == {"london"} \cup UnknownIds

LiveNext ==
  \/ Mount
  \/ Unmount
  \/ Advance
  \/ Tick
  \/ \E timezoneId \in LiveToggleIds : Toggle(timezoneId)
  \/ Render

\* The event loop: time passes, a timer task that is due is run however often
\* click handlers and renders come before it, and React renders what is queued
FairSpec ==
  /\ Init
  /\ [][LiveNext]_vars
  /\ WF_vars(Advance)
  /\ SF_vars(Tick)
  /\ WF_vars(Render)

----------------------------------------------------------------------------
(* Properties *)

LastCall == calls[Len(calls)]

\* The sequence s with its k-th element taken out
RemoveAt(s, k) == [i \in 1..(Len(s) - 1) |-> IF i < k THEN s[i] ELSE s[i + 1]]

\* C1: starting from the default selection, after any toggleTimezone calls
\* and timer ticks, the SelectionSet holds at least one id.
C1_NeverEmpty == Len(selectedTimezones) >= 1

\* The only member was toggled, after a tick, and is still there
C1_Witness ==
  /\ mounted
  /\ published # <<>>
  /\ calls # <<>>
  /\ LastCall.read = <<LastCall.id>>
  /\ before = <<LastCall.id>>
  /\ selectedTimezones = <<LastCall.id>>

\* C2: a toggleTimezone(x) that reads a SelectionSet S of more than one
\* member, x among them, leaves S without x: one id fewer, the others in the
\* order they had.
C2_RemoveKeepsOrder ==
  (mounted /\ calls # <<>>) =>
    LET S == LastCall.read
        x == LastCall.id
    IN  (Len(S) > 1 /\ includes(S, x)) =>
          /\ LastCall.set
          /\ selectedTimezones = LastCall.wrote
          /\ ~includes(selectedTimezones, x)
          /\ Len(selectedTimezones) = Len(S) - 1
          /\ \E k \in DOMAIN S : S[k] = x /\ selectedTimezones = RemoveAt(S, k)

\* new_york was taken out of the default selection
C2_Witness ==
  /\ mounted
  /\ calls # <<>>
  /\ LastCall.id = "new_york"
  /\ LastCall.read = DefaultSelection
  /\ before = DefaultSelection
  /\ selectedTimezones = <<"local", "london">>

\* C3: a toggleTimezone(y) that reads a SelectionSet S without the catalog
\* id y leaves S with y added as the last element: one id more, the ids of S
\* at the positions they had.
C3_AppendsLast ==
  (mounted /\ calls # <<>>) =>
    LET S == LastCall.read
        y == LastCall.id
    IN  (y \in CatalogIds /\ ~includes(S, y)) =>
          /\ LastCall.set
          /\ selectedTimezones = LastCall.wrote
          /\ Len(selectedTimezones) = Len(S) + 1
          /\ selectedTimezones[Len(selectedTimezones)] = y
          /\ \A i \in DOMAIN S : selectedTimezones[i] = S[i]

\* tokyo was added to local, london
C3_Witness ==
  /\ mounted
  /\ calls # <<>>
  /\ LastCall.id = "tokyo"
  /\ LastCall.read = <<"local", "london">>
  /\ before = <<"local", "london">>
  /\ selectedTimezones = <<"local", "london", "tokyo">>

\* C4: a toggleTimezone(x) that reads the SelectionSet <<x>> changes nothing:
\* it makes no setSelectedTimezones call and the SelectionSet stays as it was.
C4_FloorNoOp ==
  (mounted /\ calls # <<>>) =>
    LET S == LastCall.read
        x == LastCall.id
    IN  S = <<x>> =>
          /\ ~LastCall.set
          /\ LastCall.wrote = S
          /\ selectedTimezones = before

\* london, the only member left, was toggled
C4_Witness ==
  /\ mounted
  /\ calls # <<>>
  /\ LastCall.id = "london"
  /\ LastCall.read = <<"london">>
  /\ before = <<"london">>
  /\ selectedTimezones = <<"london">>
  /\ pending = {}

\* Two toggleTimezone calls in succession on the same id, the second reading
\* what the first one set, the first reading a SelectionSet of two or more
TwiceInSuccession ==
  /\ mounted
  /\ Len(calls) >= 2
  /\ calls[Len(calls) - 1].id = LastCall.id
  /\ Len(calls[Len(calls) - 1].read) >= 2
  /\ LastCall.read = calls[Len(calls) - 1].wrote

SameMembers(s, t) == {s[i] : i \in DOMAIN s} = {t[i] : i \in DOMAIN t}

\* C5 as stated: toggleTimezone(x) twice in succession on a SelectionSet S
\* of two or more members gives back S, value and order.
C5_TwiceRestoresOrder ==
  TwiceInSuccession => selectedTimezones = calls[Len(calls) - 1].read

\* C5, amended: toggleTimezone(x) twice in succession on a SelectionSet S of
\* two or more members gives back the members of S; the order of S comes
\* back exactly when x was not in S or was its last element, and otherwise x
\* has moved to the end, the others keeping their order.
C5_TwiceRestoresMembers ==
  TwiceInSuccession =>
    LET S == calls[Len(calls) - 1].read
        x == LastCall.id
    IN  /\ selectedTimezones = LastCall.wrote
        /\ SameMembers(selectedTimezones, S)
        /\ Len(selectedTimezones) = Len(S)
        /\ (selectedTimezones = S) <=> (~includes(S, x) \/ S[Len(S)] = x)
        /\ includes(S, x) =>
             \E k \in DOMAIN S :
                S[k] = x /\ selectedTimezones = Append(RemoveAt(S, k), x)

\* new_york, in the middle of the default selection, was toggled twice
C5_Witness ==
  /\ TwiceInSuccession
  /\ LastCall.id = "new_york"
  /\ calls[Len(calls) - 1].read = DefaultSelection
  /\ selectedTimezones = <<"local", "london", "new_york">>

\* C6: once the component has left the tree no interval timer is live, and
\* from then on no firing sets an Instant and no render happens, whether it
\* left before the first firing or between two firings.
C6_NoTickAfterUnmount ==
  /\ [](~mounted => timers = 0)
  /\ [][(~mounted /\ ~mounted') =>
          /\ published' = published
          /\ tickRenders' = tickRenders
          /\ currentTime' = currentTime
          /\ view' = view
          /\ display' = display]_vars

\* Unmounted before the first firing, and the time of that firing has passed
C6_Witness ==
  /\ ~mounted
  /\ error = "none"
  /\ timers = 0
  /\ published = <<>>
  /\ now >= currentTime + INTERVAL_MS

\* C7 as stated: a toggleTimezone call with an id that is not in TIMEZONES
\* throws UnknownTimezoneError and leaves the SelectionSet as it was.
C7_UnknownIdRejected ==
  (mounted /\ calls # <<>> /\ LastCall.id \notin CatalogIds) =>
    /\ LastCall.throws = "UnknownTimezoneError"
    /\ ~LastCall.set
    /\ selectedTimezones = before

\* C8: while the component is mounted the Instants set by successive firings
\* grow strictly, the Instant of the last firing is rendered exactly once,
\* not at all only while its render is still queued, and a firing finds the
\* firing before it rendered exactly once.
C8_OneRenderPerTick ==
  /\ [](/\ \A i, j \in DOMAIN published : i < j => published[i] < published[j]
        /\ (mounted /\ published # <<>>) =>
             /\ currentTime = published[Len(published)]
             /\ tickRenders = IF "currentTime" \in pending THEN 0 ELSE 1)
  /\ [][(mounted /\ published # <<>> /\ published' # published) =>
          tickRenders = 1]_vars

\* Three firings, the third rendered
C8_Witness ==
  /\ mounted
  /\ Len(published) = 3
  /\ tickRenders = 1
  /\ view.currentTime = published[3]

\* Strings that name no zone of the zone database
BadZones == {"mars", "", "local", "Asia/Nowhere", "GMT+25"}

\* C10: formatting for a zone identifier that names no zone throws (the
\* RangeError of toLocaleTimeString / toLocaleDateString) and gives no text;
\* a render that meets such an identifier shows no card and ends with that
\* error.
C10_BadZoneThrows ==
  /\ \A z \in BadZones \cup UnknownIds :
        ~IsValidTimeZone(z) =>
          /\ formatTime(currentTime, z) = RangeError
          /\ formatDate(currentTime, z) = RangeError
  /\ (\E i \in DOMAIN view.selectedTimezones :
         ~IsValidTimeZone(getTimezoneZone(view.selectedTimezones[i]))) =>
       /\ error = RangeError
       /\ display = <<>>
       /\ ~mounted

\* A render met the id mars, whose zone falls back to the string mars
C10_Witness ==
  /\ includes(view.selectedTimezones, "mars")
  /\ getTimezoneZone("mars") = "mars"
  /\ error = RangeError
  /\ display = <<>>

\* The firings one mount can see within the clock's range
MaxTicks == MaxNow \div INTERVAL_MS

\* C9: while the component stays mounted the clock keeps going: after the
\* mount and after each firing, as long as the clock's range leaves room for
\* one more interval, a further firing follows and sets a new, later Instant,
\* unless the component leaves the tree first.
C9_TicksContinue ==
  \A k \in 0..MaxTicks :
    (mounted /\ Len(published) = k /\ now + INTERVAL_MS <= MaxNow)
      ~> (\/ ~mounted
          \/ /\ Len(published) = k + 1
             /\ currentTime = published[k + 1]
             /\ \A i \in 1..k : published[i] < currentTime)

\* A second firing has replaced the Instant of the first
C9_Witness ==
  /\ mounted
  /\ Len(published) = 2
  /\ currentTime = published[2]
  /\ published[1] < published[2]

\* C11: formatting is a function of the Instant and the zone identifier
\* alone: for every card on screen, whose zone is one of the catalog,
\* formatting the Instant and the zone it was rendered from again, in the
\* present state, whatever ticks, toggles and time have come since, gives
\* the timeText and dateText the card shows.
C11_RenderDeterministic ==
  mounted =>
    \A i \in DOMAIN display :
       (\E j \in DOMAIN TIMEZONES : TIMEZONES[j].zone = display[i].zone) =>
         /\ display[i].timeText = formatTime(view.currentTime, display[i].zone)
         /\ display[i].dateText = formatDate(view.currentTime, display[i].zone)

\* Cards rendered at an earlier time, with a tick and a toggle queued since
C11_Witness ==
  /\ mounted
  /\ display # <<>>
  /\ now > view.currentTime
  /\ pending = {"currentTime", "selectedTimezones"}
  /\ currentTime # view.currentTime
  /\ selectedTimezones # view.selectedTimezones

\* The cards on screen for a zone
CardsOf(zone) == {display[i] : i \in {j \in DOMAIN display : display[j].zone = zone}}

\* C12: timeText is the 24-hour hours:minutes:seconds of the Instant at the
\* zone's offset in force, daylight saving included: the Instant being
\* 2024-07-01T12:00:00Z plus n seconds, n below ten, the card of
\* America/New_York shows 08:00:0n and the card of Europe/London 13:00:0n;
\* at that Instant itself they show 08:00:00 and 13:00:00.
C12_ZoneOffsets ==
  mounted =>
    LET n == view.currentTime \div 1000
    IN  n < 10 =>
          /\ \A c \in CardsOf("America/New_York") :
                /\ c.timeText = "08:00:0" \o ToString(n)
                /\ view.currentTime = 0 => c.timeText = "08:00:00"
          /\ \A c \in CardsOf("Europe/London") :
                /\ c.timeText = "13:00:0" \o ToString(n)
                /\ view.currentTime = 0 => c.timeText = "13:00:00"

\* A render at 2024-07-01T12:00:00Z, after a toggle, shows both cards
C12_Witness ==
  /\ mounted
  /\ view.currentTime = 0
  /\ calls # <<>>
  /\ pending = {}
  /\ \E c \in CardsOf("America/New_York") : c.timeText = "08:00:00"
  /\ \E c \in CardsOf("Europe/London") : c.timeText = "13:00:00"

\* What the calls give when each is applied to the SelectionSet the one
\* before it left
Sequential(selected, timezoneId) ==
  IF toggleTimezone(selected, timezoneId).set
  THEN toggleTimezone(selected, timezoneId).value
  ELSE selected

\* C13 as stated: every toggleTimezone call is applied to the most recent
\* SelectionSet, two calls made before a re-render included: the call reads
\* the SelectionSet the call before it left, and the SelectionSet after it
\* is the toggle of that one.
C13_AppliedToLatest ==
  (mounted /\ calls # <<>>) =>
    /\ LastCall.read = before
    /\ selectedTimezones = Sequential(before, LastCall.id)

\* No id occurs twice
NoDuplicates(s) == \A i, j \in DOMAIN s : i # j => s[i] # s[j]

\* C15: after any toggleTimezone calls the SelectionSet holds no id twice.
C15_NoDuplicates ==
  /\ NoDuplicates(selectedTimezones)
  /\ NoDuplicates(view.selectedTimezones)

\* tokyo was added twice before a re-render, and is there once
C15_Witness ==
  /\ mounted
  /\ Len(calls) >= 2
  /\ LastCall.id = "tokyo"
  /\ calls[Len(calls) - 1].id = "tokyo"
  /\ LastCall.read = DefaultSelection
  /\ calls[Len(calls) - 1].read = DefaultSelection
  /\ before = <<"local", "new_york", "london", "tokyo">>
  /\ selectedTimezones = <<"local", "new_york", "london", "tokyo">>

\* C16: a firing sets the Instant to what the system clock reads at that
\* firing, whatever the Instant before and however late the firing is.
C16_TickReadsClock ==
  [][(Len(published') = Len(published) + 1) =>
       /\ published'[Len(published')] = now
       /\ mounted => currentTime' = now]_vars

\* The second firing came a missed interval late and set the clock's time
C16_Witness ==
  /\ mounted
  /\ Len(published) >= 2
  /\ published[2] - published[1] > INTERVAL_MS
  /\ currentTime = published[Len(published)]
  /\ currentTime = now

\* C14: after every re-render, with no update left queued, the screen shows
\* one card per id of the latest SelectionSet, in its order, each with the
\* catalog's name and zone for the id and the texts of the latest Instant.
C14_DisplayIsLatest ==
  (mounted /\ pending = {}) =>
    /\ view.currentTime = currentTime
    /\ view.selectedTimezones = selectedTimezones
    /\ Len(display) = Len(selectedTimezones)
    /\ \A i \in DOMAIN selectedTimezones :
          /\ display[i].id = selectedTimezones[i]
          /\ \E j \in DOMAIN TIMEZONES :
                /\ TIMEZONES[j].id = display[i].id
                /\ TIMEZONES[j].name = display[i].name
                /\ TIMEZONES[j].zone = display[i].zone
          /\ display[i].timeText = formatTime(currentTime, display[i].zone)
          /\ display[i].dateText = formatDate(currentTime, display[i].zone)

\* Re-rendered after two firings and a toggle that changed the order
C14_Witness ==
  /\ mounted
  /\ pending = {}
  /\ Len(published) = 2
  /\ tickRenders = 1
  /\ calls # <<>>
  /\ selectedTimezones = <<"local", "london", "new_york">>
  /\ Len(display) = 3
  /\ display[3].id = "new_york"

\* C17: with toggles coming from the catalog's buttons only, every id of the
\* SelectionSet, queued or rendered, is an id of TIMEZONES, the lookups give
\* the catalog's name and zone, never the id itself, and no render throws.
C17_OnlyCatalogIds ==
  /\ error = "none"
  /\ \A s \in {selectedTimezones, view.selectedTimezones} :
        \A i \in DOMAIN s :
           /\ s[i] \in CatalogIds
           /\ FindIndex(s[i]) # 0
           /\ getTimezoneName(s[i]) = TIMEZONES[FindIndex(s[i])].name
           /\ getTimezoneZone(s[i]) = TIMEZONES[FindIndex(s[i])].zone
           /\ getTimezoneName(s[i]) # s[i]
           /\ getTimezoneZone(s[i]) # s[i]

\* tokyo was added by its button and rendered
C17_Witness ==
  /\ mounted
  /\ pending = {}
  /\ calls # <<>>
  /\ LastCall.id = "tokyo"
  /\ includes(selectedTimezones, "tokyo")
  /\ Len(display) = Len(selectedTimezones)
  /\ display[Len(display)].name = "Tokyo"

\* A step in which a toggleTimezone call ran
ToggleStep ==
  /\ mounted
  /\ mounted'
  /\ calls' # <<>>
  /\ (calls' # calls \/ before' # before \/ selectedTimezones' # selectedTimezones)

\* C18: a firing changes the Instant and leaves the SelectionSet, and what
\* is on screen, as they are; a toggleTimezone call changes the SelectionSet
\* and leaves the Instant, the clock and the timer as they are.  (TIMEZONES
\* is a constant of the module, as it is a const never assigned in the code.)
C18_Frames ==
  [][/\ (Len(published') = Len(published) + 1) =>
          /\ selectedTimezones' = selectedTimezones
          /\ view' = view
          /\ display' = display
          /\ calls' = calls
     /\ ToggleStep =>
          /\ currentTime' = currentTime
          /\ published' = published
          /\ view' = view
          /\ now' = now
          /\ due' = due
          /\ timers' = timers]_vars

\* A toggle has changed the SelectionSet since the render of the last firing
C18_Witness ==
  /\ mounted
  /\ published # <<>>
  /\ calls # <<>>
  /\ view.currentTime = currentTime
  /\ currentTime = published[Len(published)]
  /\ pending = {"selectedTimezones"}
  /\ selectedTimezones # view.selectedTimezones

\* C19: through mounts, unmounts and remounts there is exactly one live
\* interval timer while the component is mounted and none while it is not;
\* firings, toggles and re-renders start no timer.
C19_OneTimerWhileMounted ==
  /\ [](timers = IF mounted THEN 1 ELSE 0)
  /\ [][(mounted /\ mounted') => timers' = timers]_vars

\* Mounted again, toggled and re-rendered: one timer
C19_Witness ==
  /\ mounted
  /\ timers = 1
  /\ currentTime > 0
  /\ published = <<>>
  /\ calls # <<>>
  /\ pending = {}
  /\ view.selectedTimezones = selectedTimezones
  /\ selectedTimezones # DefaultSelection

====
